---- MODULE Spec2Model ----
(***************************************************************************)
(* A model of the IP address value types of tsipaddr (src/src/address.ts): *)
(* the Address4 and Address6 constructors, the text renderings             *)
(* (getIpString, getFullString, getRfc5952), getDecimal, the comparison    *)
(* operators and add/substract.                                            *)
(*                                                                         *)
(* A JavaScript string is modelled as a sequence of one-character strings, *)
(* so that split, join, slice, parseInt and toString are computed and not  *)
(* assumed.  A byte array is a sequence of integers.                       *)
(***************************************************************************)
EXTENDS Integers, Sequences, FiniteSets, TLC

VARIABLES
    input,          \* the argument of the last constructor call
    thrown,         \* what the last constructor call threw ("none" if nothing)
    kind,           \* concrete type of the instance: "none", "Address4", "Address6"
    byteContainer,  \* Address.byteContainer: the octets of the instance
    _ipString,      \* Address4._ipString  (<<>> is undefined, <<v>> is v)
    _decimal,       \* Address._decimal    (<<>> is undefined, <<v>> is v)
    _fullString,    \* Address6._fullString
    _rfc5952,       \* Address6._rfc5952
    call,           \* the last operation performed
    arg,            \* the argument of the last method call
    ret,            \* the value the last method call returned
    calls           \* number of method calls made on the instance

vars == <<input, thrown, kind, byteContainer, _ipString, _decimal,
          _fullString, _rfc5952, call, arg, ret, calls>>

-----------------------------------------------------------------------------
(* Program constants (src/constants.ts).                                   *)

IPV4_BYTES == 4
IPV6_BYTES == 16
IPV6_SEGMENT_LENGTH == 4

DECIMAL_DIGITS == <<"0", "1", "2", "3", "4", "5", "6", "7", "8", "9">>

HEX_DIGITS == <<"0", "1", "2", "3", "4", "5", "6", "7", "8", "9",
                "a", "b", "c", "d", "e", "f">>

-----------------------------------------------------------------------------
(* JavaScript string and array primitives.                                 *)

Range(s) == {s[i] : i \in 1..Len(s)}

\* String.prototype.includes for a one-character needle.
Includes(s, ch) == \E i \in 1..Len(s) : s[i] = ch

\* String.prototype.split(sep) for a one-character separator: the pieces
\* between the occurrences of sep; a string without sep (the empty string
\* too) gives one piece.
RECURSIVE Split(_, _)
Split(s, sep) ==
    IF ~Includes(s, sep) THEN <<s>>
    ELSE LET i == CHOOSE k \in 1..Len(s) :
                     s[k] = sep /\ \A j \in 1..(k - 1) : s[j] # sep
         IN  <<SubSeq(s, 1, i - 1)>> \o Split(SubSeq(s, i + 1, Len(s)), sep)

\* Array.prototype.join(sep) of an array of strings.
RECURSIVE Join(_, _)
Join(parts, sep) ==
    IF Len(parts) = 0 THEN <<>>
    ELSE IF Len(parts) = 1 THEN parts[1]
    ELSE parts[1] \o <<sep>> \o Join(Tail(parts), sep)

\* String.prototype.slice(from, to) with 0-based, in-range bounds.
Slice(s, from, to) == SubSeq(s, from + 1, to)

\* Array(n).fill(v)
Fill(n, v) == [i \in 1..n |-> v]

\* The concatenation of a sequence of sequences.
RECURSIVE Flatten(_)
Flatten(seqs) == IF Len(seqs) = 0 THEN <<>> ELSE Head(seqs) \o Flatten(Tail(seqs))

\* Value of a digit character in the alphabet digits (0-based position).
DigitValue(digits, ch) == (CHOOSE i \in 1..Len(digits) : digits[i] = ch) - 1

\* parseInt(s, radix) of a non-empty string of digits of that radix.
RECURSIVE ParseDigits(_, _)
ParseDigits(s, digits) ==
    IF Len(s) = 0 THEN 0
    ELSE ParseDigits(SubSeq(s, 1, Len(s) - 1), digits) * Len(digits)
         + DigitValue(digits, s[Len(s)])

\* Number.prototype.toString(radix) of a non-negative integer.
RECURSIVE NumberToString(_, _)
NumberToString(n, digits) ==
    IF n < Len(digits) THEN <<digits[n + 1]>>
    ELSE NumberToString(n \div Len(digits), digits) \o <<digits[(n % Len(digits)) + 1]>>

\* String.prototype.toLowerCase over the letters that occur in the inputs.
LowerOf(ch) ==
    CASE ch = "A" -> "a" [] ch = "B" -> "b" [] ch = "C" -> "c"
      [] ch = "D" -> "d" [] ch = "E" -> "e" [] ch = "F" -> "f"
      [] ch = "G" -> "g" [] OTHER -> ch

ToLowerCase(s) == [i \in 1..Len(s) |-> LowerOf(s[i])]

\* String.prototype.padStart(n, "0")
PadStart(s, n) == IF Len(s) >= n THEN s ELSE Fill(n - Len(s), "0") \o s

-----------------------------------------------------------------------------
(* Validators (src/arrays.ts).                                             *)

isValidByte(n) == n \in Int /\ n >= 0 /\ n <= 255

isValidByteArray(seq) == \A i \in 1..Len(seq) : isValidByte(seq[i])

isDecimalString(s) == Len(s) > 0 /\ \A i \in 1..Len(s) : s[i] \in Range(DECIMAL_DIGITS)

isHexadecimalString(s) ==
    Len(s) > 0 /\ \A i \in 1..Len(s) : LowerOf(s[i]) \in Range(HEX_DIGITS)

-----------------------------------------------------------------------------
(* Outcome of a constructor call: an instance, or the error thrown.        *)

Ok(k, bytes) == [thrown |-> "none", kind |-> k, octets |-> bytes]
Throw(e) == [thrown |-> e, kind |-> "none", octets |-> <<>>]
AddressValueError == Throw("AddressValueError")


\* new ByteContainer(bytes): the container only enforces the byte range.
NewByteContainer(k, bytes) ==
    IF isValidByteArray(bytes) THEN Ok(k, bytes) ELSE Throw("InvalidByte")

-----------------------------------------------------------------------------
(* Address4 constructor (src/src/address.ts, 170-206).                     *)

\* The array branch: at most 4 valid bytes, zero-extended on the left.
Address4FromArray(in) ==
    IF Len(in) > IPV4_BYTES THEN AddressValueError
    ELSE IF ~isValidByteArray(in) THEN AddressValueError
    ELSE NewByteContainer("Address4",
            IF Len(in) < IPV4_BYTES THEN Fill(IPV4_BYTES - Len(in), 0) \o in ELSE in)

\* The string branch without the range check of each part.
Address4FromString_NoRangeCheck(in) ==
    LET addressSplitted == Split(in, ".")
    IN  IF Len(addressSplitted) # IPV4_BYTES THEN AddressValueError
        ELSE IF \E i \in 1..Len(addressSplitted) : ~isDecimalString(addressSplitted[i])
             THEN AddressValueError
        ELSE NewByteContainer("Address4",
                [i \in 1..Len(addressSplitted) |->
                    ParseDigits(addressSplitted[i], DECIMAL_DIGITS)])

\* The string branch: split on ".", exactly 4 parts, each a decimal string
\* whose value is a valid byte.
Address4FromString(in) ==
    LET addressSplitted == Split(in, ".")
    IN  IF Len(addressSplitted) # IPV4_BYTES THEN AddressValueError
        ELSE IF \E i \in 1..Len(addressSplitted) :
                    \/ ~isDecimalString(addressSplitted[i])
                    \/ ~isValidByte(ParseDigits(addressSplitted[i], DECIMAL_DIGITS))
             THEN AddressValueError
        ELSE NewByteContainer("Address4",
                [i \in 1..Len(addressSplitted) |->
                    ParseDigits(addressSplitted[i], DECIMAL_DIGITS)])

\* Address4.isValidOctet of the other revision (src/unnamed/part_000).
isValidOctet(octet) == octet >= 0 /\ octet <= 255

\* The string branch of the other revision (src/unnamed/part_000): a part
\* passes the digit test when every character is a decimal digit (vacuously
\* for the empty part, whose parseInt is NaN and fails isValidOctet).
Legacy_Address4FromString(in) ==
    LET addressSplitted == Split(in, ".")
    IN  IF Len(addressSplitted) # IPV4_BYTES THEN AddressValueError
        ELSE IF \E i \in 1..Len(addressSplitted) :
                    \/ ~(\A j \in 1..Len(addressSplitted[i]) :
                            Includes(DECIMAL_DIGITS, addressSplitted[i][j]))
                    \/ Len(addressSplitted[i]) = 0
                    \/ ~isValidOctet(ParseDigits(addressSplitted[i], DECIMAL_DIGITS))
             THEN AddressValueError
        ELSE Ok("Address4",
                [i \in 1..Len(addressSplitted) |->
                    ParseDigits(addressSplitted[i], DECIMAL_DIGITS)])

-----------------------------------------------------------------------------
(* Address6 constructor (src/src/address.ts, 234-312).                     *)

\* let shortenedIndex = null
Null == -1

\* The array branch with the zeros appended instead of prepended.
Address6FromArray_PadsRight(in) ==
    IF Len(in) > IPV6_BYTES THEN AddressValueError
    ELSE IF ~isValidByteArray(in) THEN AddressValueError
    ELSE NewByteContainer("Address6",
            IF Len(in) < IPV6_BYTES THEN in \o Fill(IPV6_BYTES - Len(in), 0) ELSE in)

\* The array branch: at most 16 valid bytes, zero-extended on the left.
Address6FromArray(in) ==
    IF Len(in) > IPV6_BYTES THEN AddressValueError
    ELSE IF ~isValidByteArray(in) THEN AddressValueError
    ELSE NewByteContainer("Address6",
            IF Len(in) < IPV6_BYTES THEN Fill(IPV6_BYTES - Len(in), 0) \o in ELSE in)

\* One hexadecimal group (lines 278-297): the two bytes of the group, or
\* <<>> when the group is over-long or not hexadecimal.
HexGroupOctets(item) ==
    IF Len(item) > IPV6_SEGMENT_LENGTH THEN <<>>
    ELSE LET padded == IF Len(item) < IPV6_SEGMENT_LENGTH
                       THEN Fill(IPV6_SEGMENT_LENGTH - Len(item), "0") \o item
                       ELSE item
             firstOctet == ToLowerCase(Slice(padded, 0, IPV6_SEGMENT_LENGTH \div 2))
             secondOctet == ToLowerCase(Slice(padded, IPV6_SEGMENT_LENGTH \div 2, Len(padded)))
         IN  IF ~isHexadecimalString(firstOctet) THEN <<>>
             ELSE IF ~isHexadecimalString(secondOctet) THEN <<>>
             ELSE <<ParseDigits(firstOctet, HEX_DIGITS), ParseDigits(secondOctet, HEX_DIGITS)>>

\* A dotted part parsed wherever it stands.
EmbeddedAddress4_AnyPosition(item, index, n) == Address4FromString(item)

\* A part containing "." (lines 268-277): only the last part may be one, and
\* it is parsed by the Address4 constructor.
EmbeddedAddress4(item, index, n) ==
    IF index # n - 1 THEN AddressValueError
    ELSE Address4FromString(item)

\* The loop over addressSplitted.entries() (lines 252-298), from the part at
\* 0-based position index on, with the loop's shortenedIndex and octets.
RECURSIVE ParseParts(_, _, _, _)
ParseParts(addressSplitted, index, shortenedIndex, octets) ==
    IF index >= Len(addressSplitted)
    THEN [thrown |-> "none", shortenedIndex |-> shortenedIndex, octets |-> octets]
    ELSE LET item == addressSplitted[index + 1]
             n == Len(addressSplitted)
             throw == [thrown |-> "AddressValueError",
                       shortenedIndex |-> shortenedIndex, octets |-> octets]
         IN  IF item = <<>> THEN
                 IF shortenedIndex = Null
                 THEN ParseParts(addressSplitted, index + 1, index, octets)
                 ELSE IF shortenedIndex = 0 /\ index = 1
                 THEN ParseParts(addressSplitted, index + 1, shortenedIndex, octets)
                 ELSE IF shortenedIndex = n - 2 /\ index = n - 1
                 THEN ParseParts(addressSplitted, index + 1, shortenedIndex, octets)
                 ELSE throw
             ELSE IF Includes(item, ".") THEN
                 LET a4 == EmbeddedAddress4(item, index, n)
                 IN  IF a4.thrown # "none"
                     THEN [thrown |-> a4.thrown,
                           shortenedIndex |-> shortenedIndex, octets |-> octets]
                     ELSE ParseParts(addressSplitted, index + 1, shortenedIndex,
                                     octets \o a4.octets)
             ELSE LET pair == HexGroupOctets(item)
                  IN  IF pair = <<>> THEN throw
                      ELSE ParseParts(addressSplitted, index + 1, shortenedIndex,
                                      octets \o pair)

\* Array.prototype.slice(from, to) with the bounds clamped to the array.
SliceClamp(a, from, to) ==
    LET f == IF from > Len(a) THEN Len(a) ELSE from
        t == IF to > Len(a) THEN Len(a) ELSE to
    IN  SubSeq(a, f + 1, t)

\* Lines 299-306: the zero bytes spliced in at the recorded position.  The
\* result is <<"RangeError">> when Array() is given a negative length.
ExpandShortened(octets, shortenedIndex) ==
    IF IPV6_BYTES - Len(octets) < 0 THEN <<"RangeError">>
    ELSE SliceClamp(octets, 0, shortenedIndex * 2)
         \o Fill(IPV6_BYTES - Len(octets), 0)
         \o SliceClamp(octets, shortenedIndex * 2, Len(octets))

\* The string branch (lines 248-311).
Address6FromString(in) ==
    LET addressSplitted == Split(in, ":")
        loop == ParseParts(addressSplitted, 0, Null, <<>>)
    IN  IF loop.thrown # "none" THEN Throw(loop.thrown)
        ELSE LET octets == IF loop.shortenedIndex # Null
                           THEN ExpandShortened(loop.octets, loop.shortenedIndex)
                           ELSE loop.octets
             IN  IF octets = <<"RangeError">> THEN Throw("RangeError")
                 ELSE IF Len(octets) # IPV6_BYTES THEN AddressValueError
                 ELSE NewByteContainer("Address6", octets)


-----------------------------------------------------------------------------
(* Renderings.                                                             *)

\* The lazy caches (typeof this._x === "undefined"): computed on the first
\* call, reused afterwards.
Cached(cache, value) == IF cache = <<>> THEN <<value>> ELSE cache

\* getIpString joining with Array.prototype.join's default separator.
Address4IpString_DefaultJoin(octets) ==
    Join([i \in 1..Len(octets) |-> NumberToString(octets[i], DECIMAL_DIGITS)], ",")

\* Address4.getIpString (lines 208-213): this.getOctets().join(".")
Address4IpString(octets) ==
    Join([i \in 1..Len(octets) |-> NumberToString(octets[i], DECIMAL_DIGITS)], ".")

------------------------------------------------------------------------\* hexOctetToString (lines 25-27)
hexOctetToString(octet) == PadStart(NumberToString(octet, HEX_DIGITS), 2)

\* Address6.getOctetsPair (lines 343-354): the octets two by two.
getOctetsPair(octets) ==
    [g \in 1..((Len(octets) + 1) \div 2) |->
        SubSeq(octets, 2 * g - 1, IF 2 * g > Len(octets) THEN Len(octets) ELSE 2 * g)]

\* Address6.getFullString (lines 317-324)
Address6FullString(octets) ==
    LET pairs == getOctetsPair(octets)
    IN  Join([g \in 1..Len(pairs) |->
                Flatten([i \in 1..Len(pairs[g]) |-> hexOctetToString(pairs[g][i])])], ":")

\* String.prototype.replace(/^0{1,3}/, ""): up to three leading zeros go.
StripLeadingZeros(s) ==
    LET z == CHOOSE k \in 0..3 :
                 /\ k <= Len(s)
                 /\ \A i \in 1..k : s[i] = "0"
                 /\ (k = 3 \/ k = Len(s) \/ s[k + 1] # "0")
    IN  SubSeq(s, z + 1, Len(s))

\* The unshortened text of calculateRfc5952 (lines 357-361).
Rfc5952Output(octets) ==
    LET pairs == getOctetsPair(octets)
    IN  Join([g \in 1..Len(pairs) |->
                StripLeadingZeros(
                    Flatten([i \in 1..Len(pairs[g]) |-> hexOctetToString(pairs[g][i])]))],
             ":")

\* The scan of calculateRfc5952 (lines 376-407) from the 0-based position
\* index on: the parse state, shortenBegin and the shortens recorded.
RECURSIVE Scan(_, _, _, _, _)
Scan(output, index, state, shortenBegin, shortens) ==
    IF index >= Len(output)
    THEN [state |-> state, shortenBegin |-> shortenBegin, shortens |-> shortens]
    ELSE LET ch == output[index + 1]
         IN  CASE state = "OctetBegin" ->
                    IF ch = "0"
                    THEN Scan(output, index + 1, "Shorten", index, shortens)
                    ELSE Scan(output, index + 1, "NotShorten", shortenBegin, shortens)
               [] state = "Shorten" ->
                    IF ch = "0" \/ ch = ":"
                    THEN Scan(output, index + 1, state, shortenBegin, shortens)
                    ELSE LET shortenLength == index - shortenBegin
                         IN  Scan(output, index + 1, "NotShorten", shortenBegin,
                                  IF shortenLength > 2
                                  THEN Append(shortens, [begin |-> shortenBegin,
                                                         end |-> index,
                                                         length |-> shortenLength])
                                  ELSE shortens)
               [] state = "NotShorten" ->
                    IF ch = ":"
                    THEN Scan(output, index + 1, "OctetBegin", shortenBegin, shortens)
                    ELSE Scan(output, index + 1, state, shortenBegin, shortens)

\* The run still open at the end of the text (lines 408-417).
ScanEnd(output, scan) ==
    IF scan.state = "Shorten"
    THEN LET shortenLength == Len(output) - scan.shortenBegin
         IN  IF shortenLength > 2
             THEN Append(scan.shortens, [begin |-> scan.shortenBegin,
                                         end |-> Len(output),
                                         length |-> shortenLength])
             ELSE scan.shortens
    ELSE scan.shortens

\* The reduce with the comparison turned to <=: the last longest run wins.
RECURSIVE BestShorten_LastWins(_, _)
BestShorten_LastWins(acc, rest) ==
    IF Len(rest) = 0 THEN acc
    ELSE BestShorten_LastWins(IF acc.length <= Head(rest).length THEN Head(rest) ELSE acc,
                              Tail(rest))

\* shortens.slice(1).reduce(..., shortens[0]) (lines 421-429): a later run
\* replaces the accumulator only when it is strictly longer.
RECURSIVE BestShorten(_, _)
BestShorten(acc, rest) ==
    IF Len(rest) = 0 THEN acc
    ELSE BestShorten(IF acc.length < Head(rest).length THEN Head(rest) ELSE acc,
                     Tail(rest))

\* Address6.calculateRfc5952 (lines 356-434)
calculateRfc5952(octets) ==
    LET output == Rfc5952Output(octets)
        shortens == ScanEnd(output, Scan(output, 0, "OctetBegin", 0, <<>>))
    IN  IF Len(shortens) = 0 THEN output
        ELSE LET bestShorten == BestShorten(shortens[1], Tail(shortens))
             IN  IF bestShorten.begin = 0
                 THEN <<":", ":">> \o SubSeq(output, bestShorten.end + 1, Len(output))
                 ELSE SubSeq(output, 1, bestShorten.begin) \o <<":">>
                      \o SubSeq(output, bestShorten.end + 1, Len(output))

-----------------------------------------------------------------------------
(* ByteContainer (src/arrays.ts): comparison and fixed-width arithmetic.   *)

\* ByteContainer.compareWith: most-significant byte first.
compareWith(bytes, other) ==
    IF \A i \in 1..Len(bytes) : bytes[i] = other[i] THEN "Equal"
    ELSE LET d == CHOOSE i \in 1..Len(bytes) :
                     bytes[i] # other[i] /\ \A j \in 1..(i - 1) : bytes[j] = other[j]
         IN  IF bytes[d] < other[d] THEN "Lesser" ELSE "Greater"

\* The amount right-aligned to the width of the container.
AlignRight(amount, width) == Fill(width - Len(amount), 0) \o amount

\* Byte-wise addition from the least-significant byte, carry moving left.
RECURSIVE AddBytes(_, _, _)
AddBytes(bytes, amount, carry) ==
    IF Len(bytes) = 0 THEN <<>>
    ELSE LET n == Len(bytes)
             sum == bytes[n] + amount[n] + carry
         IN  Append(AddBytes(SubSeq(bytes, 1, n - 1), SubSeq(amount, 1, n - 1),
                             sum \div 256),
                    sum % 256)

\* Byte-wise subtraction from the least-significant byte, borrow moving left.
RECURSIVE SubtractBytes(_, _, _)
SubtractBytes(bytes, amount, borrow) ==
    IF Len(bytes) = 0 THEN <<>>
    ELSE LET n == Len(bytes)
             diff == bytes[n] - amount[n] - borrow
         IN  Append(SubtractBytes(SubSeq(bytes, 1, n - 1), SubSeq(amount, 1, n - 1),
                                  IF diff < 0 THEN 1 ELSE 0),
                    IF diff < 0 THEN diff + 256 ELSE diff)

\* ByteContainer.add: the carry out of the first byte is dropped.
ByteContainerAdd(bytes, amount) == AddBytes(bytes, AlignRight(amount, Len(bytes)), 0)

\* ByteContainer.subtract: the borrow out of the first byte is dropped.
ByteContainerSubtract(bytes, amount) ==
    SubtractBytes(bytes, AlignRight(amount, Len(bytes)), 0)

-----------------------------------------------------------------------------
(* Address: comparison, arithmetic and decimal value (lines 67-150).       *)

Address_eq(bytes, other) == compareWith(bytes, other) = "Equal"

Address_ne(bytes, other) == compareWith(bytes, other) # "Equal"

Address_gt(bytes, other) == compareWith(bytes, other) = "Greater"

Address_lt(bytes, other) == compareWith(bytes, other) = "Lesser"

\* ge that forgets the equal case.
Address_ge_OnlyGreater(bytes, other) == compareWith(bytes, other) = "Greater"

Address_ge(bytes, other) ==
    LET result == compareWith(bytes, other)
    IN  result = "Greater" \/ result = "Equal"

Address_le(bytes, other) ==
    LET result == compareWith(bytes, other)
    IN  result = "Lesser" \/ result = "Equal"

\* add that takes the amount away.
Address_add_Subtracts(k, bytes, amount) == Ok(k, ByteContainerSubtract(bytes, amount))

\* Address.add (lines 136-138): an instance of the same class built from the
\* container of the sum.
Address_add(k, bytes, amount) == Ok(k, ByteContainerAdd(bytes, amount))

\* substract that adds the amount.
Address_substract_Adds(k, bytes, amount) == Ok(k, ByteContainerAdd(bytes, amount))

\* Address.substract (lines 148-150)
Address_substract(k, bytes, amount) == Ok(k, ByteContainerSubtract(bytes, amount))

\* A JavaScript number of the form sum of digits[i] * 256^e, written in base
\* 256: the digits from the first non-zero one to the last non-zero one, and
\* the exponent of the last digit; exact tells whether a double holds it.
NormalNumber(digits, exp) ==
    LET nz == {i \in 1..Len(digits) : digits[i] # 0}
    IN  IF nz = {} THEN [digits |-> <<>>, exp |-> 0]
        ELSE LET first == CHOOSE i \in nz : \A j \in nz : i <= j
                 last == CHOOSE i \in nz : \A j \in nz : i >= j
             IN  [digits |-> SubSeq(digits, first, last),
                  exp |-> exp + (Len(digits) - last)]

\* Position of the highest and of the lowest set bit of a non-zero byte.
HighBit(b) == CHOOSE h \in 0..7 : b \div (2 ^ h) = 1
LowBit(b) == CHOOSE l \in 0..7 : b % (2 ^ (l + 1)) # 0 /\ b % (2 ^ l) = 0

\* Whether the 53-bit significand of a double holds the number.
FitsDouble(num) ==
    \/ num.digits = <<>>
    \/ 8 * (Len(num.digits) - 1) + HighBit(num.digits[1])
         - LowBit(num.digits[Len(num.digits)]) + 1 <= 53

\* Address.getDecimal (lines 67-75): the sum of octet * 2 ** (8 * (4 - index - 1)),
\* so the last of the octets has the exponent 4 - length.
getDecimal(octets) ==
    LET num == NormalNumber(octets, 4 - Len(octets))
    IN  [digits |-> num.digits, exp |-> num.exp, exact |-> FitsDouble(num)]

-----------------------------------------------------------------------------
(* The constructors' dispatch on the type of the input.  An input is       *)
(* [type |-> "string", chars |-> the characters, ints |-> <<>>] or         *)
(* [type |-> "array", chars |-> <<>>, ints |-> the elements].              *)

Str(s) == [type |-> "string", chars |-> s, ints |-> <<>>]
Arr(a) == [type |-> "array", chars |-> <<>>, ints |-> a]

\* Address4.constructor (lines 170-206)
Address4Constructor(in) ==
    IF in.type = "array" THEN Address4FromArray(in.ints)
    ELSE Address4FromString(in.chars)

\* Address6.constructor (lines 234-312)
Address6Constructor(in) ==
    IF in.type = "array" THEN Address6FromArray(in.ints)
    ELSE Address6FromString(in.chars)

-----------------------------------------------------------------------------
(* Bounds and inputs of the Address4 checks.                               *)

\* Largest number of "."-separated parts of an input string.
MaxParts4 == 5

\* Largest length of an input array of an Address4.
MaxLen4 == 5

\* Number of method calls followed on one instance.
MaxCalls == 2

\* Decimal texts without leading zeros, with the value each denotes.
DecimalSamples ==
    { [n |-> 0,   s |-> <<"0">>],
      [n |-> 9,   s |-> <<"9">>],
      [n |-> 10,  s |-> <<"1", "0">>],
      [n |-> 127, s |-> <<"1", "2", "7">>],
      [n |-> 255, s |-> <<"2", "5", "5">>] }

\* Parts of the strings tried: canonical bytes, a byte with a leading zero,
\* and parts that are no byte.
Parts4 ==
    { <<"0">>, <<"2", "5", "5">>, <<"0", "1">>,
      <<>>, <<"2", "5", "6">>, <<"a">>, <<"-", "1">> }

SeqsUpTo(S, n) == UNION {[1..k -> S] : k \in 0..n}

\* The dotted quads of the sample bytes, with the octets each denotes.
CanonicalQuads ==
    { [s |-> Join([i \in 1..4 |-> q[i].s], "."), o |-> [i \in 1..4 |-> q[i].n]] :
        q \in [1..4 -> DecimalSamples] }

\* Strings of up to MaxParts4 valid parts, strings of 4 parts of any kind,
\* and the canonical quads.
Strings4 ==
    {Join(p, ".") : p \in SeqsUpTo({<<"0">>, <<"2", "5", "5">>}, MaxParts4)}
    \cup {Join(p, ".") : p \in [1..IPV4_BYTES -> Parts4]}
    \cup {q.s : q \in CanonicalQuads}

\* Arrays of up to MaxLen4 valid bytes, and arrays of at most 4 elements
\* that may be no byte.
Arrays4 ==
    SeqsUpTo({0, 9, 255}, MaxLen4)
    \cup SeqsUpTo({0, 10, 127, 255, -1, 256}, IPV4_BYTES)

Inputs4 == {Str(s) : s \in Strings4} \cup {Arr(a) : a \in Arrays4}

-----------------------------------------------------------------------------
(* The state machine: one constructor call on the chosen input, then       *)
(* method calls on the instance it produced.                               *)

Blank ==
    /\ thrown = "none" /\ kind = "none" /\ byteContainer = <<>>
    /\ _ipString = <<>> /\ _decimal = <<>> /\ _fullString = <<>> /\ _rfc5952 = <<>>
    /\ call = "start" /\ arg = <<>> /\ ret = <<>> /\ calls = 0

\* A constructor call with the given outcome.
Construct(name, outcome) ==
    /\ call = "start"
    /\ call' = name
    /\ thrown' = outcome.thrown
    /\ kind' = outcome.kind
    /\ byteContainer' = outcome.octets
    /\ UNCHANGED <<input, _ipString, _decimal, _fullString, _rfc5952, arg, ret, calls>>

\* A method call on the instance: it returns value and leaves the octets.
Method(name, argument, value) ==
    /\ kind # "none"
    /\ calls < MaxCalls
    /\ calls' = calls + 1
    /\ call' = name
    /\ arg' = argument
    /\ ret' = value
    /\ UNCHANGED <<input, thrown, kind, byteContainer>>

NewAddress4 == Construct("new Address4", Address4Constructor(input))

NewAddress6 == Construct("new Address6", Address6Constructor(input))

\* The string branch of the other revision's constructor.
Legacy_NewAddress4 ==
    /\ input.type = "string"
    /\ Construct("legacy new Address4", Legacy_Address4FromString(input.chars))

\* Address.getOctets (lines 55-57)
GetOctets ==
    /\ Method("getOctets", <<>>, byteContainer)
    /\ UNCHANGED <<_ipString, _decimal, _fullString, _rfc5952>>

\* Address4.getIpString (lines 208-213)
Address4GetIpString ==
    /\ kind = "Address4"
    /\ _ipString' = Cached(_ipString, Address4IpString(byteContainer))
    /\ Method("getIpString", <<>>, _ipString'[1])
    /\ UNCHANGED <<_decimal, _fullString, _rfc5952>>

Init4 == input \in Inputs4 /\ Blank

Next4 ==
    \/ NewAddress4
    \/ Legacy_NewAddress4
    \/ Address4GetIpString
    \/ GetOctets

Spec4 == Init4 /\ [][Next4]_vars


-----------------------------------------------------------------------------
(* Properties of Address4 text parsing and rendering.                      *)

DigitNum ==
    [c \in Range(DECIMAL_DIGITS) |->
        CASE c = "0" -> 0 [] c = "1" -> 1 [] c = "2" -> 2 [] c = "3" -> 3
          [] c = "4" -> 4 [] c = "5" -> 5 [] c = "6" -> 6 [] c = "7" -> 7
          [] c = "8" -> 8 [] c = "9" -> 9]

\* Position of the k-th occurrence of ch in s; 0 before the first, Len(s)+1
\* after the last.
NthPos(s, ch, k) ==
    LET at == {i \in 1..Len(s) : s[i] = ch}
    IN  IF k = 0 THEN 0
        ELSE IF k > Cardinality(at) THEN Len(s) + 1
        ELSE CHOOSE i \in at : Cardinality({j \in at : j < i}) = k - 1

\* The k-th piece of s between occurrences of ch.
Piece(s, ch, k) == SubSeq(s, NthPos(s, ch, k - 1) + 1, NthPos(s, ch, k) - 1)

PieceCount(s, ch) == Cardinality({i \in 1..Len(s) : s[i] = ch}) + 1

\* The decimal value of a digit string, place by place.
DecimalValue(p) ==
    LET place(i) == CASE i = Len(p) -> 1 [] i = Len(p) - 1 -> 10
                      [] i = Len(p) - 2 -> 100 [] OTHER -> 1000
        term(i) == DigitNum[p[i]] * place(i)
    IN  (IF Len(p) >= 1 THEN term(Len(p)) ELSE 0)
        + (IF Len(p) >= 2 THEN term(Len(p) - 1) ELSE 0)
        + (IF Len(p) >= 3 THEN term(Len(p) - 2) ELSE 0)

\* A non-empty string of decimal digits whose value is at most 255.
IsByteText(p) ==
    /\ Len(p) > 0
    /\ \A i \in 1..Len(p) : \E d \in 0..9 : p[i] = DECIMAL_DIGITS[d + 1]
    /\ \A i \in 1..(Len(p) - 3) : p[i] = "0"
    /\ DecimalValue(p) <= 255

WellFormedQuad(s) ==
    /\ PieceCount(s, ".") = 4
    /\ \A k \in 1..4 : IsByteText(Piece(s, ".", k))

QuadOctets(s) == [k \in 1..4 |-> DecimalValue(Piece(s, ".", k))]

\* C3: new Address4(s) succeeds iff s has exactly 4 "."-separated parts, each
\* a non-empty decimal-digit string of value 0..255; the octets are then
\* those values in order; otherwise AddressValueError is thrown and there is
\* no instance.  Both revisions of the constructor are covered.
C3_Address4StringParsing ==
    (call \in {"new Address4", "legacy new Address4"} /\ input.type = "string") =>
        IF WellFormedQuad(input.chars)
        THEN thrown = "none" /\ kind = "Address4"
             /\ byteContainer = QuadOctets(input.chars)
        ELSE thrown = "AddressValueError" /\ kind = "none" /\ byteContainer = <<>>

C3_Witness ==
    /\ call = "new Address4"
    /\ input = Str(<<"2", "5", "5", ".", "0", "1", ".", "0", ".", "2", "5", "5">>)
    /\ thrown = "none"
    /\ byteContainer = <<255, 1, 0, 255>>

\* C10: for a dotted quad s without leading zeros and the octets o it denotes,
\* new Address4(s).getIpString() = s, new Address4(o).getIpString() = s and
\* new Address4(s).getOctets() = o, on the first call and on repeated calls.
C10_Address4RoundTrip ==
    \A q \in CanonicalQuads :
        (input = Str(q.s) \/ input = Arr(q.o)) =>
            /\ call = "new Address4" => thrown = "none"
            /\ call = "getIpString" => ret = q.s
            /\ call = "getOctets" => ret = q.o

C10_Witness ==
    /\ input = Str(<<"1", "2", "7", ".", "0", ".", "1", "0", ".", "2", "5", "5">>)
    /\ call = "getIpString"
    /\ calls = 2
    /\ _ipString = <<input.chars>>
    /\ ret = input.chars


-----------------------------------------------------------------------------
(* Bounds and inputs of the Address6 string checks.                        *)

\* Largest number of hexadecimal groups of an input string.
MaxGroups6 == 9

\* Largest number of ":"-separated parts of the freely combined strings.
MaxFreeParts6 == 4

\* Hexadecimal groups, with the two bytes each denotes.
GroupSamples ==
    << [s |-> <<"1">>,                o |-> <<0, 1>>],
       [s |-> <<"f", "f">>,           o |-> <<0, 255>>],
       [s |-> <<"a", "0", "b">>,      o |-> <<10, 11>>],
       [s |-> <<"1", "2", "3", "4">>, o |-> <<18, 52>>],
       [s |-> <<"0">>,                o |-> <<0, 0>>],
       [s |-> <<"A", "B", "c", "d">>, o |-> <<171, 205>>],
       [s |-> <<"0", "0", "c">>,      o |-> <<0, 12>>] >>

\* The group at position i of variant v: the samples in rotation.
GroupAt(i, v) == GroupSamples[((i + v) % Len(GroupSamples)) + 1]

\* k groups, "::", m groups.
ElisionCase(k, m, v) ==
    LET before == [i \in 1..k |-> GroupAt(i, v)]
        after == [i \in 1..m |-> GroupAt(k + i, v)]
    IN  [k |-> k, m |-> m,
         s |-> Join([i \in 1..k |-> before[i].s], ":") \o <<":", ":">>
               \o Join([i \in 1..m |-> after[i].s], ":"),
         parts |-> [i \in 1..k |-> before[i].s]
                   \o (IF k = 0 /\ m = 0 THEN <<<<>>, <<>>, <<>>>>
                       ELSE IF k = 0 \/ m = 0 THEN <<<<>>, <<>>>> ELSE <<<<>>>>)
                   \o [i \in 1..m |-> after[i].s],
         lead |-> Flatten([i \in 1..k |-> before[i].o]),
         trail |-> Flatten([i \in 1..m |-> after[i].o])]

ElisionCases ==
    { ElisionCase(km[1], km[2], v) :
        km \in {x \in (0..MaxGroups6) \X (0..MaxGroups6) : x[1] + x[2] <= MaxGroups6},
        v \in 0..(Len(GroupSamples) - 1) }

\* k groups and no "::".
PlainCase(k, v) ==
    LET groups == [i \in 1..k |-> GroupAt(i, v)]
    IN  [k |-> k,
         s |-> Join([i \in 1..k |-> groups[i].s], ":"),
         parts |-> [i \in 1..k |-> groups[i].s],
         o |-> Flatten([i \in 1..k |-> groups[i].o])]

PlainCases ==
    { PlainCase(k, v) : k \in 1..MaxGroups6, v \in 0..(Len(GroupSamples) - 1) }

\* Parts that are no hexadecimal group: an empty part, a non-hexadecimal and
\* an over-long group, a dotted quad, and malformed dotted quads.
OddParts6 ==
    { <<>>, <<"g">>, <<"1", "2", "3", "4", "5">>,
      <<"1", "0", ".", "0", ".", "0", ".", "2", "5", "5">>,
      <<"1", ".", "2", ".", "3">>,
      <<"2", "5", "6", ".", "0", ".", "0", ".", "1">> }

\* The part sequences of the cases of variant 0.
BaseParts6 ==
    { ElisionCase(km[1], km[2], 0).parts :
        km \in {x \in (0..MaxGroups6) \X (0..MaxGroups6) : x[1] + x[2] <= MaxGroups6} }
    \cup { PlainCase(k, 0).parts : k \in 1..MaxGroups6 }

\* A case of variant 0 with one of its parts replaced by an odd part.
SubstitutedStrings6 ==
    UNION { { Join([parts EXCEPT ![pu[1]] = pu[2]], ":") :
                pu \in (1..Len(parts)) \X OddParts6 } : parts \in BaseParts6 }

\* Every string of up to MaxFreeParts6 parts of these kinds.
FreeStrings6 ==
    { Join(p, ":") :
        p \in SeqsUpTo({ <<>>, <<"1">>, <<"f", "f", "f", "f">>, <<"g">>,
                         <<"1", "9", "2", ".", "1", "6", "8", ".", "1", ".", "1">> },
                       MaxFreeParts6) }

\* The strings the documentation names.
DocumentedStrings6 ==
    { <<"1", ":", "2", ":", "3", ":", "4", ":", "5", ":", "6", ":", "7", ":", "8", ":", "9">>,
      <<"1", ":", ":", "2", ":", ":", "3">>,
      <<":", ":", "1">>,
      <<":", ":">>,
      <<":", "1", ":", "2", ":", "3", ":", "4", ":", "5", ":", "6", ":", "7", ":", "8">>,
      <<"1", ":", "2", ":", "3", ":">> }

Strings6 ==
    {c.s : c \in ElisionCases} \cup {c.s : c \in PlainCases}
    \cup SubstitutedStrings6 \cup FreeStrings6 \cup DocumentedStrings6

InitParse6 == input \in {Str(s) : s \in Strings6} /\ Blank

NextParse6 ==
    \/ NewAddress6
    \/ GetOctets

SpecParse6 == InitParse6 /\ [][NextParse6]_vars


-----------------------------------------------------------------------------
(* Properties of Address6 string parsing.                                  *)

Parts6(s) == [k \in 1..PieceCount(s, ":") |-> Piece(s, ":", k)]

IsHexGroup(p) ==
    /\ Len(p) \in 1..4
    /\ \A i \in 1..Len(p) :
          p[i] \in Range(HEX_DIGITS) \cup {"A", "B", "C", "D", "E", "F"}

IsDotted(p) == \E i \in 1..Len(p) : p[i] = "."

\* C1: a string of k groups, "::" and m groups, k + m <= 7, gives the 2k
\* bytes of the leading groups, zero bytes, and the 2m bytes of the trailing
\* groups; "::" itself (k = m = 0) gives 16 zero bytes.
C1_FullElision ==
    \A c \in ElisionCases :
        (c.k + c.m <= 7 /\ input = Str(c.s) /\ call = "new Address6") =>
            /\ thrown = "none"
            /\ kind = "Address6"
            /\ byteContainer =
                 c.lead \o Fill(IPV6_BYTES - Len(c.lead) - Len(c.trail), 0) \o c.trail

\* What holds of the code: the same with at least one group (k + m >= 1).
C1_ElisionWithGroups ==
    \A c \in ElisionCases :
        (c.k + c.m \in 1..7 /\ input = Str(c.s) /\ call = "new Address6") =>
            /\ thrown = "none"
            /\ kind = "Address6"
            /\ byteContainer =
                 c.lead \o Fill(IPV6_BYTES - Len(c.lead) - Len(c.trail), 0) \o c.trail

\* The number of bytes the parts of s stand for: 2 for a group, 4 for a
\* dotted quad.
TotalBytes(s) ==
    LET parts == Parts6(s)
    IN  2 * Cardinality({k \in 1..Len(parts) : IsHexGroup(parts[k])})
        + 4 * Cardinality({k \in 1..Len(parts) : IsDotted(parts[k])})

\* Two separate occurrences of "::".
HasSecondElision(s) ==
    \E i, j \in 1..(Len(s) - 1) :
        /\ j >= i + 2
        /\ s[i] = ":" /\ s[i + 1] = ":"
        /\ s[j] = ":" /\ s[j + 1] = ":"

\* The inputs C2 names: a group that is not hexadecimal or is over-long, a
\* malformed or misplaced dotted quad, a second "::", and parts that do not
\* expand to 16 bytes (no "::" and not 16 bytes, or more than 16 bytes).
RejectedByClaim(s) ==
    LET parts == Parts6(s)
        n == Len(parts)
    IN  \/ \E k \in 1..n :
              parts[k] # <<>> /\ ~IsDotted(parts[k]) /\ ~IsHexGroup(parts[k])
        \/ \E k \in 1..n :
              IsDotted(parts[k]) /\ (k # n \/ ~WellFormedQuad(parts[k]))
        \/ HasSecondElision(s)
        \/ (\A k \in 1..n : parts[k] # <<>>) /\ TotalBytes(s) # IPV6_BYTES
        \/ TotalBytes(s) > IPV6_BYTES

\* C2: every such input makes the Address6 constructor raise
\* AddressValueError, and no other kind of error, and gives no instance.
C2_SingleErrorKind ==
    (call = "new Address6" /\ input.type = "string" /\ RejectedByClaim(input.chars)) =>
        thrown = "AddressValueError" /\ kind = "none"

\* What holds of the code: every such input is rejected, with
\* AddressValueError or, when "::" stands among more than 8 groups, with the
\* RangeError of Array().
C2_Rejected ==
    (call = "new Address6" /\ input.type = "string" /\ RejectedByClaim(input.chars)) =>
        /\ kind = "none"
        /\ thrown \in {"AddressValueError", "RangeError"}
        /\ thrown = "RangeError" =>
              /\ TotalBytes(input.chars) > IPV6_BYTES
              /\ \E k \in 1..Len(Parts6(input.chars)) : Parts6(input.chars)[k] = <<>>

\* C9: a part containing "." is accepted only as the last part and only when
\* it is a valid dotted quad; its 4 octets are then the last 4 bytes of the
\* address; "::ffff:192.168.1.1" is 0,0,0,0,0,0,0,0,0,0,255,255,192,168,1,1.
C9_EmbeddedIPv4 ==
    (call = "new Address6" /\ input.type = "string"
        /\ \E k \in 1..Len(Parts6(input.chars)) : IsDotted(Parts6(input.chars)[k])) =>
        LET parts == Parts6(input.chars)
            n == Len(parts)
        IN  /\ IF \/ \E k \in 1..(n - 1) : IsDotted(parts[k])
                  \/ ~WellFormedQuad(parts[n])
               THEN thrown = "AddressValueError" /\ kind = "none"
               ELSE thrown = "none" =>
                       /\ Len(byteContainer) = IPV6_BYTES
                       /\ SubSeq(byteContainer, IPV6_BYTES - 3, IPV6_BYTES)
                            = QuadOctets(parts[n])
            /\ input.chars = <<":", ":", "f", "f", "f", "f", ":",
                               "1", "9", "2", ".", "1", "6", "8", ".", "1", ".", "1">>
               => /\ thrown = "none"
                  /\ byteContainer
                       = <<0, 0, 0, 0, 0, 0, 0, 0, 0, 0, 255, 255, 192, 168, 1, 1>>

C9_Witness ==
    /\ call = "new Address6"
    /\ input.chars = <<":", ":", "f", "f", "f", "f", ":",
                       "1", "9", "2", ".", "1", "6", "8", ".", "1", ".", "1">>
    /\ thrown = "none"
    /\ byteContainer = <<0, 0, 0, 0, 0, 0, 0, 0, 0, 0, 255, 255, 192, 168, 1, 1>>


-----------------------------------------------------------------------------
(* Address6 renderings: the methods, and the addresses they are tried on.  *)

\* Address6.getFullString (lines 317-324)
Address6GetFullString ==
    /\ kind = "Address6"
    /\ _fullString' = Cached(_fullString, Address6FullString(byteContainer))
    /\ Method("getFullString", <<>>, _fullString'[1])
    /\ UNCHANGED <<_ipString, _decimal, _rfc5952>>

\* Address6.getRfc5952 (lines 329-334)
Address6GetRfc5952 ==
    /\ kind = "Address6"
    /\ _rfc5952' = Cached(_rfc5952, calculateRfc5952(byteContainer))
    /\ Method("getRfc5952", <<>>, _rfc5952'[1])
    /\ UNCHANGED <<_ipString, _decimal, _fullString>>

\* Address6.getIpString (lines 339-341): this.getRfc5952()
Address6GetIpString ==
    /\ kind = "Address6"
    /\ _rfc5952' = Cached(_rfc5952, calculateRfc5952(byteContainer))
    /\ Method("getIpString", <<>>, _rfc5952'[1])
    /\ UNCHANGED <<_ipString, _decimal, _fullString>>

\* Number of rotations of the non-zero groups tried.
MaxVariants6 == 2

\* Non-zero groups: the two bytes, and the RFC 5952 text of the group.
NonZeroSamples ==
    << [o |-> <<16, 128>>, s |-> <<"1", "0", "8", "0">>],
       [o |-> <<0, 8>>,    s |-> <<"8">>],
       [o |-> <<8, 0>>,    s |-> <<"8", "0", "0">>],
       [o |-> <<32, 12>>,  s |-> <<"2", "0", "0", "c">>],
       [o |-> <<65, 122>>, s |-> <<"4", "1", "7", "a">>],
       [o |-> <<0, 16>>,   s |-> <<"1", "0">>],
       [o |-> <<171, 0>>,  s |-> <<"a", "b", "0", "0">>] >>

\* The 16 bytes of the address whose groups at the positions in zeros are
\* zero and whose other groups are the samples in rotation from v on.
PatternOctets(zeros, v) ==
    Flatten([g \in 1..8 |->
        IF g \in zeros THEN <<0, 0>>
        ELSE NonZeroSamples[((Cardinality((1..g) \ zeros) - 1 + v)
                               % Len(NonZeroSamples)) + 1].o])

Arrays6 ==
    { PatternOctets(zeros, v) : zeros \in SUBSET (1..8), v \in 0..(MaxVariants6 - 1) }

InitText6 == input \in {Arr(a) : a \in Arrays6} /\ Blank

NextText6 ==
    \/ NewAddress6
    \/ Address6GetFullString
    \/ Address6GetRfc5952
    \/ Address6GetIpString

SpecText6 == InitText6 /\ [][NextText6]_vars

-----------------------------------------------------------------------------
(* Properties of the RFC 5952 rendering.                                   *)

\* The text of a group: "0" for a zero group, the sample's text otherwise.
GroupText(pair) ==
    IF pair = <<0, 0>> THEN <<"0">>
    ELSE (CHOOSE g \in Range(NonZeroSamples) : g.o = pair).s

\* RFC 5952 of 16 octets, group by group: the longest run of at least two
\* zero groups, the leftmost of the longest, is replaced by "::".
RefRfc5952(octets) ==
    LET pair(g) == <<octets[2 * g - 1], octets[2 * g]>>
        zero(g) == pair(g) = <<0, 0>>
        texts(a, b) == [i \in 1..(b - a + 1) |-> GroupText(pair(a + i - 1))]
        runs == { r \in (1..8) \X (1..8) :
                    /\ r[1] < r[2]
                    /\ \A g \in r[1]..r[2] : zero(g)
                    /\ (r[1] = 1 \/ ~zero(r[1] - 1))
                    /\ (r[2] = 8 \/ ~zero(r[2] + 1)) }
        size(r) == r[2] - r[1] + 1
    IN  IF runs = {} THEN Join(texts(1, 8), ":")
        ELSE LET best == CHOOSE r \in runs :
                            \A q \in runs :
                               size(r) > size(q) \/ (size(r) = size(q) /\ r[1] <= q[1])
             IN  Join(texts(1, best[1] - 1), ":") \o <<":", ":">>
                 \o Join(texts(best[2] + 1, 8), ":")

\* C4: getRfc5952() is the 8 groups in lowercase hexadecimal without leading
\* zeros, joined by ":", with the longest run of two or more zero groups, the
\* leftmost of the longest, replaced by "::"; a single zero group stays, and
\* without such a run the joined text is returned as it is.
C4_Rfc5952Canonical ==
    (kind = "Address6" /\ call \in {"getRfc5952", "getIpString"}) =>
        /\ ret = RefRfc5952(byteContainer)
        /\ byteContainer = <<16, 128, 0, 0, 0, 0, 0, 0, 0, 8, 8, 0, 32, 12, 65, 122>>
           => ret = <<"1", "0", "8", "0", ":", ":", "8", ":", "8", "0", "0", ":",
                      "2", "0", "0", "c", ":", "4", "1", "7", "a">>

C4_Witness ==
    /\ call = "getRfc5952"
    /\ byteContainer = <<16, 128, 0, 0, 0, 0, 0, 0, 0, 8, 8, 0, 32, 12, 65, 122>>
    /\ ret = <<"1", "0", "8", "0", ":", ":", "8", ":", "8", "0", "0", ":",
               "2", "0", "0", "c", ":", "4", "1", "7", "a">>

\* A tie between two runs, the leftmost compressed: 0:0:1080:0:0:8:800:200c.
C4_TieWitness ==
    /\ call = "getRfc5952"
    /\ byteContainer = <<0, 0, 0, 0, 16, 128, 0, 0, 0, 0, 0, 8, 8, 0, 32, 12>>
    /\ ret = <<":", ":", "1", "0", "8", "0", ":", "0", ":", "0", ":", "8", ":",
               "8", "0", "0", ":", "2", "0", "0", "c">>


-----------------------------------------------------------------------------
(* Arithmetic and comparison: the methods, and the operands tried.         *)

\* Addresses: all 4-byte arrays of three byte values, the documented IPv4
\* addresses, and 16-byte arrays with runs of 0 and 255.
ArithArrays ==
    [1..IPV4_BYTES -> {0, 1, 255}]
    \cup { <<127, 0, 0, 1>>, <<192, 168, 0, 1>> }
    \cup { Fill(16, 0), Fill(16, 255), Fill(15, 0) \o <<1>>, Fill(15, 255) \o <<0>>,
           <<1>> \o Fill(15, 0), Fill(8, 0) \o Fill(8, 255),
           Fill(10, 0) \o <<31, 255, 255, 255, 255, 255>>,
           Fill(9, 0) \o <<1, 0, 0, 0, 0, 0, 1>>,
           Fill(12, 0) \o <<127, 0, 0, 1>> }

\* Amounts and second operands: short arrays to be right-aligned, and
\* arrays of the full widths.
ArithArgs ==
    SeqsUpTo({0, 255}, IPV4_BYTES)
    \cup { <<1>>, <<2>>, <<1, 0>>, <<127, 0, 0, 0>>, <<127, 0, 0, 2>>, <<1, 0, 0, 0>> }
    \cup { Fill(16, 255), Fill(15, 0) \o <<1>>, <<1>> \o Fill(15, 0),
           Fill(8, 255) \o Fill(8, 0), Fill(15, 255) \o <<0>> }

\* The constructor of the class of the instance.
SameClass(k, in) ==
    IF k = "Address4" THEN Address4Constructor(in) ELSE Address6Constructor(in)

\* Address.add (lines 136-138) with an amount of at most as many bytes as
\* the address.
Add ==
    /\ kind # "none"
    /\ Len(arg) <= Len(byteContainer)
    /\ Method("add", arg, Address_add(kind, byteContainer, arg))
    /\ UNCHANGED <<_ipString, _decimal, _fullString, _rfc5952>>

\* Address.substract (lines 148-150)
Substract ==
    /\ kind # "none"
    /\ Len(arg) <= Len(byteContainer)
    /\ Method("substract", arg, Address_substract(kind, byteContainer, arg))
    /\ UNCHANGED <<_ipString, _decimal, _fullString, _rfc5952>>

\* eq, ne, gt, lt, ge and le (lines 87-126) against an instance of the same
\* class built from the array arg; the result of each is recorded.
Compare ==
    /\ kind # "none"
    /\ SameClass(kind, Arr(arg)).thrown = "none"
    /\ LET other == SameClass(kind, Arr(arg)).octets
       IN  Method("compare", other,
                  [eq |-> Address_eq(byteContainer, other),
                   ne |-> Address_ne(byteContainer, other),
                   gt |-> Address_gt(byteContainer, other),
                   lt |-> Address_lt(byteContainer, other),
                   ge |-> Address_ge(byteContainer, other),
                   le |-> Address_le(byteContainer, other)])
    /\ UNCHANGED <<_ipString, _decimal, _fullString, _rfc5952>>

\* Address.getDecimal (lines 67-75)
GetDecimal ==
    /\ kind # "none"
    /\ _decimal' = Cached(_decimal, getDecimal(byteContainer))
    /\ Method("getDecimal", arg, _decimal'[1])
    /\ UNCHANGED <<_ipString, _fullString, _rfc5952>>

\* The instance and the operand of its methods are chosen at the start.
BlankWithArg ==
    /\ thrown = "none" /\ kind = "none" /\ byteContainer = <<>>
    /\ _ipString = <<>> /\ _decimal = <<>> /\ _fullString = <<>> /\ _rfc5952 = <<>>
    /\ call = "start" /\ ret = <<>> /\ calls = 0
    /\ arg \in ArithArgs

InitArith == input \in {Arr(a) : a \in ArithArrays} /\ BlankWithArg

NextArith ==
    \/ NewAddress4
    \/ NewAddress6
    \/ Add
    \/ Substract

SpecArith == InitArith /\ [][NextArith]_vars

NextOrder ==
    \/ NewAddress4
    \/ NewAddress6
    \/ Compare
    \/ GetDecimal

SpecOrder == InitArith /\ [][NextOrder]_vars


-----------------------------------------------------------------------------
(* Properties of the arithmetic, the ordering and the decimal value.       *)

\* The value of at most 3 bytes, most-significant first.
LimbValue(bytes) ==
    CASE Len(bytes) = 0 -> 0
      [] Len(bytes) = 1 -> bytes[1]
      [] Len(bytes) = 2 -> bytes[1] * 256 + bytes[2]
      [] Len(bytes) = 3 -> bytes[1] * 65536 + bytes[2] * 256 + bytes[3]

\* The w bytes of a value below 256^w, w <= 3.
LimbBytes(v, w) ==
    SubSeq(<<(v \div 65536) % 256, (v \div 256) % 256, v % 256>>, 4 - w, 3)

\* (value(a) + sign * value(x) + c) mod 256^N for a and x of N bytes, as N
\* bytes, computed on 24-bit limbs from the right; c is the carry (or minus
\* the borrow) into the last limb.
RECURSIVE ValueSum(_, _, _, _)
ValueSum(a, x, sign, c) ==
    IF Len(a) = 0 THEN <<>>
    ELSE LET n == Len(a)
             w == IF n < 3 THEN n ELSE 3
             base == 256 ^ w
             total == LimbValue(SubSeq(a, n - w + 1, n))
                      + sign * LimbValue(SubSeq(x, n - w + 1, n)) + c
             low == IF total < 0 THEN total + base ELSE total % base
             out == IF total < 0 THEN -1 ELSE total \div base
         IN  ValueSum(SubSeq(a, 1, n - w), SubSeq(x, 1, n - w), sign, out)
             \o LimbBytes(low, w)

ZeroExtended(x, n) == [i \in 1..n |-> IF i <= n - Len(x) THEN 0 ELSE x[i - (n - Len(x))]]

\* C5: a.add(x) is an address of the class of a whose value is
\* (value(a) + value(x)) mod 256^N; a carry out of the first byte is dropped;
\* 255.255.255.255 + [1] = 0.0.0.0 and 127.0.0.1 + [2] = 127.0.0.3.
C5_AddWraps ==
    call = "add" =>
        /\ ret.thrown = "none"
        /\ ret.kind = kind
        /\ Len(ret.octets) = Len(byteContainer)
        /\ ret.octets = ValueSum(byteContainer,
                                 ZeroExtended(arg, Len(byteContainer)), 1, 0)
        /\ (kind = "Address4" /\ byteContainer = <<255, 255, 255, 255>> /\ arg = <<1>>)
           => ret.octets = <<0, 0, 0, 0>>
        /\ (kind = "Address4" /\ byteContainer = <<127, 0, 0, 1>> /\ arg = <<2>>)
           => ret.octets = <<127, 0, 0, 3>>

C5_Witness ==
    /\ call = "add"
    /\ kind = "Address4"
    /\ byteContainer = <<255, 255, 255, 255>>
    /\ arg = <<1>>
    /\ ret.kind = "Address4"
    /\ ret.octets = <<0, 0, 0, 0>>

\* C6: a.substract(x) is an address of the class of a whose value is
\* (value(a) - value(x)) mod 256^N; a borrow passes every zero byte and a
\* borrow out of the first byte is dropped; 127.0.0.1 - [2] = 126.255.255.255.
C6_SubstractWraps ==
    call = "substract" =>
        /\ ret.thrown = "none"
        /\ ret.kind = kind
        /\ Len(ret.octets) = Len(byteContainer)
        /\ ret.octets = ValueSum(byteContainer,
                                 ZeroExtended(arg, Len(byteContainer)), -1, 0)
        /\ (kind = "Address4" /\ byteContainer = <<127, 0, 0, 1>> /\ arg = <<2>>)
           => ret.octets = <<126, 255, 255, 255>>

C6_Witness ==
    /\ call = "substract"
    /\ kind = "Address4"
    /\ byteContainer = <<127, 0, 0, 1>>
    /\ arg = <<2>>
    /\ ret.kind = "Address4"
    /\ ret.octets = <<126, 255, 255, 255>>

\* A borrow out of the first byte of an Address6: 0 - 1 is sixteen 255.
C6_WrapWitness ==
    /\ call = "substract"
    /\ kind = "Address6"
    /\ byteContainer = Fill(16, 0)
    /\ arg = <<1>>
    /\ ret.octets = Fill(16, 255)

\* a's octets come before b's, most-significant byte first.
Precedes(a, b) ==
    \E i \in 1..Len(a) : a[i] < b[i] /\ \A j \in 1..(i - 1) : a[j] = b[j]

\* C7: exactly one of A.lt(B), A.eq(B), A.gt(B) holds; eq iff the octets are
\* the same, lt iff A's octets come first, most-significant byte first;
\* ge = gt or eq, le = lt or eq, ne = not eq.
C7_Ordering ==
    call = "compare" =>
        /\ Len(arg) = Len(byteContainer)
        /\ Cardinality({op \in {"lt", "eq", "gt"} : ret[op]}) = 1
        /\ ret.eq <=> (\A i \in 1..Len(byteContainer) : byteContainer[i] = arg[i])
        /\ ret.lt <=> Precedes(byteContainer, arg)
        /\ ret.gt <=> Precedes(arg, byteContainer)
        /\ ret.ge <=> (ret.gt \/ ret.eq)
        /\ ret.le <=> (ret.lt \/ ret.eq)
        /\ ret.ne <=> ~ret.eq

C7_Witness ==
    /\ call = "compare"
    /\ kind = "Address4"
    /\ byteContainer = <<127, 0, 0, 1>>
    /\ arg = <<127, 0, 0, 2>>
    /\ ret.lt /\ ret.le /\ ret.ne /\ ~ret.eq /\ ~ret.gt /\ ~ret.ge

C7_EqualWitness ==
    /\ call = "compare"
    /\ kind = "Address6"
    /\ byteContainer = Fill(15, 0) \o <<1>>
    /\ arg = byteContainer
    /\ ret.eq /\ ret.ge /\ ret.le /\ ~ret.ne /\ ~ret.lt /\ ~ret.gt

\* The sum of octet[i] * 256^(N-1-i) is a safe integer (below 2^53).
SafeValue(octets) ==
    LET num == NormalNumber(octets, 0)
    IN  \/ num.digits = <<>>
        \/ 8 * (Len(num.digits) + num.exp - 1) + HighBit(num.digits[1]) + 1 <= 53

\* C8: getDecimal() is the sum of octet[i] * 256^(N-1-i), N = 4 for Address4
\* and N = 16 for Address6, exactly when that sum is a safe integer.
C8_GetDecimal ==
    (call = "getDecimal" /\ SafeValue(byteContainer)) =>
        /\ ret.exact
        /\ [digits |-> ret.digits, exp |-> ret.exp] = NormalNumber(byteContainer, 0)

\* What holds of the code: the claim for Address4, and for an Address6 the
\* sum with the exponents of a 4-byte address, 256^(3-i).
C8_GetDecimalOfCode ==
    (call = "getDecimal" /\ SafeValue(byteContainer)) =>
        /\ ret.exact
        /\ [digits |-> ret.digits, exp |-> ret.exp]
             = NormalNumber(byteContainer, IF kind = "Address4" THEN 0 ELSE -12)


-----------------------------------------------------------------------------
(* Construction from an octet sequence.                                    *)

\* Largest length of an input array of an Address6.
MaxLen6 == 17

\* The valid byte at position i of the longer arrays.
ByteAt(i) == (i * 37 + 200) % 256

\* Arrays of 0..MaxLen6 valid bytes, and the same with one element replaced
\* by a number that is no byte.
LongArrays ==
    { [i \in 1..len |-> ByteAt(i)] : len \in 0..MaxLen6 }
    \cup UNION { { [[i \in 1..len |-> ByteAt(i)] EXCEPT ![pb[1]] = pb[2]] :
                     pb \in (1..len) \X {-1, 256} } : len \in 1..MaxLen6 }

ArrayInputs == Arrays4 \cup LongArrays \cup { <<1>> }

InitArray == input \in {Arr(a) : a \in ArrayInputs} /\ Blank

NextArray ==
    \/ NewAddress4
    \/ NewAddress6
    \/ GetOctets

SpecArray == InitArray /\ [][NextArray]_vars

\* C11: construction from an integer sequence of length L succeeds iff
\* L <= N (4 for Address4, 16 for Address6) and every element is in 0..255;
\* the address then has N octets, N - L zero bytes followed by the input;
\* otherwise AddressValueError is thrown and there is no instance.
C11_OctetSequence ==
    (call \in {"new Address4", "new Address6"} /\ input.type = "array") =>
        LET N == IF call = "new Address4" THEN 4 ELSE 16
            in == input.ints
            L == Len(in)
        IN  IF L <= N /\ \A i \in 1..L : in[i] \in 0..255
            THEN /\ thrown = "none"
                 /\ kind = (IF call = "new Address4" THEN "Address4" ELSE "Address6")
                 /\ Len(byteContainer) = N
                 /\ \A i \in 1..(N - L) : byteContainer[i] = 0
                 /\ \A i \in 1..L : byteContainer[N - L + i] = in[i]
            ELSE thrown = "AddressValueError" /\ kind = "none" /\ byteContainer = <<>>

C11_Witness ==
    /\ call = "new Address4"
    /\ input = Arr(<<1>>)
    /\ thrown = "none"
    /\ byteContainer = <<0, 0, 0, 1>>

\* A 13-byte array as an Address6: three zero bytes, then the input.
C11_Witness6 ==
    /\ call = "getOctets"
    /\ kind = "Address6"
    /\ Len(input.ints) = 13
    /\ ret = <<0, 0, 0>> \o input.ints

-----------------------------------------------------------------------------
(* Text of an Address6 given back to the constructor.                      *)

\* new Address6(a.getFullString()) and new Address6(a.getRfc5952()): the
\* string branch of the constructor (lines 248-311) applied to the text the
\* rendering returned; arg is that text and ret the outcome.
ReparseText ==
    /\ call \in {"getFullString", "getRfc5952"}
    /\ Method(IF call = "getFullString" THEN "new Address6(getFullString)"
              ELSE "new Address6(getRfc5952)",
              ret, Address6FromString(ret))
    /\ UNCHANGED <<_ipString, _decimal, _fullString, _rfc5952>>

NextRoundTrip6 ==
    \/ NewAddress6
    \/ Address6GetFullString
    \/ Address6GetRfc5952
    \/ ReparseText

SpecRoundTrip6 == InitText6 /\ [][NextRoundTrip6]_vars

Reparsed == call \in {"new Address6(getFullString)", "new Address6(getRfc5952)"}

\* C12: for every 16-byte address a, new Address6(a.getRfc5952()) and
\* new Address6(a.getFullString()) both succeed and have exactly the octets
\* of a.
C12_TextRoundTrip ==
    Reparsed => (ret.thrown = "none" /\ ret.octets = byteContainer)

\* What the code does: the round trip holds for the full text of every
\* address and for the RFC 5952 text of every address but the all-zero one,
\* whose text "::" the constructor rejects.
C12_RoundTripOfCode ==
    Reparsed =>
        IF call = "new Address6(getRfc5952)" /\ byteContainer = Fill(IPV6_BYTES, 0)
        THEN arg = <<":", ":">> /\ ret = AddressValueError
        ELSE ret.thrown = "none" /\ ret.octets = byteContainer

\* The RFC 5952 text of an address with a zero run at the very end is read back.
C12_TrailingRunWitness ==
    /\ call = "new Address6(getRfc5952)"
    /\ Len(arg) > 2
    /\ arg[Len(arg)] = ":" /\ arg[Len(arg) - 1] = ":"
    /\ ret.thrown = "none" /\ ret.octets = byteContainer

-----------------------------------------------------------------------------
(* Empty parts of an Address6 string.                                      *)

HasEmptyPart(s) == \E k \in 1..PieceCount(s, ":") : Piece(s, ":", k) = <<>>

ContainsElision(s) == \E i \in 1..(Len(s) - 1) : s[i] = ":" /\ s[i + 1] = ":"

\* The only empty part of s comes from a single ":" at its start or its end.
SingleEdgeColon(s) ==
    LET parts == Parts6(s)
    IN  /\ Len(parts) >= 2
        /\ Cardinality({k \in 1..Len(parts) : parts[k] = <<>>}) = 1
        /\ parts[1] = <<>> \/ parts[Len(parts)] = <<>>

\* C13: every string the Address6 constructor accepts that has an empty part
\* after splitting on ":" contains "::", and a string whose only empty part
\* comes from a single leading or single trailing ":" is rejected with
\* AddressValueError.
C13_EmptyPartOnlyInElision ==
    (call = "new Address6" /\ input.type = "string") =>
        /\ (thrown = "none" /\ HasEmptyPart(input.chars)) => ContainsElision(input.chars)
        /\ SingleEdgeColon(input.chars) => thrown = "AddressValueError"

\* What the code does: the first empty part is taken as the place of the
\* elision wherever it stands, so a single leading or trailing ":" next to
\* at most 16 bytes of groups is accepted, with the zero bytes on its side.
C13_EdgeColonOfCode ==
    (call = "new Address6" /\ input.type = "string" /\ SingleEdgeColon(input.chars)
     /\ \A k \in 1..PieceCount(input.chars, ":") :
            Piece(input.chars, ":", k) = <<>> \/ IsHexGroup(Piece(input.chars, ":", k))) =>
        LET parts == Parts6(input.chars)
            n == 2 * (Len(parts) - 1)
        IN  IF n > IPV6_BYTES THEN thrown = "RangeError"
            ELSE /\ thrown = "none"
                 /\ Len(byteContainer) = IPV6_BYTES
                 /\ \A i \in 1..(IPV6_BYTES - n) :
                        byteContainer[IF parts[1] = <<>> THEN i ELSE n + i] = 0

\* "1:2:3:" is accepted as 1:2:3::.
C13_TrailingColonAccepted ==
    /\ call = "new Address6"
    /\ input = Str(<<"1", ":", "2", ":", "3", ":">>)
    /\ thrown = "none"
    /\ byteContainer = <<0, 1, 0, 2, 0, 3>> \o Fill(10, 0)

\* ":1:2:3:4:5:6:7:8" is accepted as 1:2:3:4:5:6:7:8.
C13_LeadingColonAccepted ==
    /\ call = "new Address6"
    /\ input = Str(<<":", "1", ":", "2", ":", "3", ":", "4", ":", "5", ":", "6", ":", "7", ":", "8">>)
    /\ thrown = "none"
    /\ byteContainer = <<0, 1, 0, 2, 0, 3, 0, 4, 0, 5, 0, 6, 0, 7, 0, 8>>

====
